---- MODULE Spec2Model ----
(***************************************************************************)
(* A model of the entity/component store of src/src/entities/mod.rs and of *)
(* the query engine of src/src/entities/query.rs.                          *)
(*                                                                         *)
(* Slot indices are 0-based as in the source; a Vec is a TLA+ sequence, so *)
(* slot i of a Vec v is v[i + 1] (operator At).  A bitmask (u128) is a     *)
(* natural number; &, | and ^ are computed bit by bit.  With at most       *)
(* NumTypes keys in `components` the exponent of register_component never  *)
(* reaches the width of u128.                                              *)
(***************************************************************************)
EXTENDS Integers, Sequences, FiniteSets, TLC

\* Bounds of the model: the component types and payloads the callers use, the
\* entity slots create_entity may append, the calls of one run, and the types
\* one query asks for.
NumTypes == 2
MaxEntities == 2
MaxData == 2
MaxCalls == 5
MaxQueryTypes == 2
\* The mask width of the scaled-down store: fewer bits than there are types.
SmallWidth == 1
\* the handles (Ref, RefMut) the callers hold at one time
MaxHandles == 2
\* The width of a mask: u128
MaskWidth == 128

\* The component types the callers use (TypeId::of::<T>()) and the payloads.
TypeIds == 1..NumTypes
Data == 1..MaxData
\* An Option is a sequence of at most one element: None, or Some(x).
None == << >>
Some(x) == <<x>>

VARIABLES
  components,     \* HashMap<TypeId, Vec<Option<ComponentType>>>
  entity_count,   \* usize
  bit_masks,      \* HashMap<TypeId, u128>
  map,            \* Vec<u128>
  insert_cursor,  \* usize
  width,          \* the number of bits of a mask (u128: 128)
  overflow_checks, \* the build panics on integer overflow (debug) or wraps (release)
  borrows,        \* per cell (type, slot): the live Ref and RefMut handles of its RefCell
  values,         \* Resources.values: HashMap<TypeId, Rc<RefCell<dyn Any>>>
  written,        \* history: per resource type, the value last assigned through a RefMut
  last,           \* the most recent call: its name, arguments and outcome
  carried,        \* history: per slot and type, the value the callers put and did not remove
  freed,          \* history: slots deleted by delete_entity_by_id and not targeted since
  reused,         \* history: slots create_entity handed out again after such a deletion
  registrations,  \* history: Some(the types in the order they were registered), None once
                  \* a type was deregistered or registered again
  calls           \* the number of calls made so far

vars ==
  <<components, entity_count, bit_masks, map, insert_cursor, width, overflow_checks,
    borrows, values, written, last, carried, freed, reused, registrations, calls>>

----------------------------------------------------------------------------
\* u128 arithmetic

RECURSIVE BitAnd(_, _)
BitAnd(a, b) ==
  IF a = 0 \/ b = 0 THEN 0
  ELSE (a % 2) * (b % 2) + 2 * BitAnd(a \div 2, b \div 2)

RECURSIVE BitOr(_, _)
BitOr(a, b) ==
  IF a = 0 THEN b
  ELSE IF b = 0 THEN a
  ELSE (IF a % 2 = 1 \/ b % 2 = 1 THEN 1 ELSE 0) + 2 * BitOr(a \div 2, b \div 2)

RECURSIVE BitXor(_, _)
BitXor(a, b) ==
  IF a = 0 THEN b
  ELSE IF b = 0 THEN a
  ELSE (((a % 2) + (b % 2)) % 2) + 2 * BitXor(a \div 2, b \div 2)

\* 2_u128.pow(n)
Pow2(n) == 2 ^ n

----------------------------------------------------------------------------
\* Vec and HashMap helpers

\* v[i] of a Vec (0-based)
At(v, i) == v[i + 1]

\* v[i] = x
SetAt(v, i, x) == [v EXCEPT ![i + 1] = x]

\* HashMap::insert(k, x): adds the key or replaces its value
HashInsert(h, k, x) == [y \in DOMAIN h \cup {k} |-> IF y = k THEN x ELSE h[y]]

\* HashMap::remove_entry(k)
HashRemove(h, k) == [y \in DOMAIN h \ {k} |-> h[y]]

\* The empty HashMap
EmptyHash == [y \in {} |-> None]

\* The store as one value, for the operators below.
Ents ==
  [components |-> components, entity_count |-> entity_count,
   bit_masks |-> bit_masks, map |-> map, insert_cursor |-> insert_cursor,
   width |-> width, overflow_checks |-> overflow_checks, borrows |-> borrows]

\* The outcome of a call: the store it leaves and Ok / Err / a panic.
Outcome(s, r) == [s |-> s, res |-> r]

----------------------------------------------------------------------------
\* RefCell: the dynamic borrow state of one cell

\* The places a component can be stored at: a type's column and a slot.
Cells == TypeIds \X (0..(MaxEntities - 1))

\* A RefCell nobody holds a handle of.
Unborrowed == [shared |-> 0, exclusive |-> 0]

NoBorrows == [c \in Cells |-> Unborrowed]

\* RefCell::borrow() returns a Ref unless a RefMut is live; it panics then.
CanBorrow(b) == b.exclusive = 0

\* A borrow_mut() that looks for other RefMut handles only.
CanBorrowMut_writers(b) == b.exclusive = 0

\* RefCell::borrow_mut() returns a RefMut unless any handle is live; it panics
\* then.
CanBorrowMut(b) == b.shared = 0 /\ b.exclusive = 0

----------------------------------------------------------------------------
\* Entities

\* 2_u128.pow(n) does not fit the mask: it panics where overflow is checked
\* and is 2^n % 2^width = 0 where it wraps.
PowOverflows(s, n) == n >= s.width

\* register_component numbering the bits from one (2^(n+1) for the n-th type).
register_component_from_one(s, T) ==
  LET n == Cardinality(DOMAIN s.components)
      bitmask == IF PowOverflows(s, n + 1) THEN 0 ELSE Pow2(n + 1)
  IN  IF PowOverflows(s, n + 1) /\ s.overflow_checks
      THEN Outcome(s, "panic")
      ELSE Outcome([s EXCEPT !.components = HashInsert(s.components, T, << >>),
                             !.bit_masks = HashInsert(s.bit_masks, T, bitmask)], "ok")

register_component(s, T) ==
  LET n == Cardinality(DOMAIN s.components)
      bitmask == IF PowOverflows(s, n) THEN 0 ELSE Pow2(n)
  IN  IF PowOverflows(s, n) /\ s.overflow_checks
      THEN Outcome(s, "panic")
      ELSE Outcome([s EXCEPT !.components = HashInsert(s.components, T, << >>),
                             !.bit_masks = HashInsert(s.bit_masks, T, bitmask)], "ok")

fill_new_component_checked(s, T) ==
  IF T \notin DOMAIN s.components
  THEN Outcome(s, "err")
  ELSE Outcome([s EXCEPT !.components[T] = @ \o [i \in 1..s.entity_count |-> None]], "ok")

\* The first index whose mask is zero, or -1 (find(..) returning None).
FirstZero(m) ==
  IF \E i \in 1..Len(m) : m[i] = 0
  THEN (CHOOSE i \in 1..Len(m) : m[i] = 0 /\ \A j \in 1..(i - 1) : m[j] # 0) - 1
  ELSE -1

\* create_entity appending a slot without counting it.
create_entity_uncounted(s) ==
  IF FirstZero(s.map) # -1
  THEN [s EXCEPT !.insert_cursor = FirstZero(s.map)]
  ELSE [s EXCEPT !.components = [T \in DOMAIN s.components |-> Append(s.components[T], None)],
                 !.map = Append(s.map, 0),
                 !.insert_cursor = s.entity_count]

create_entity(s) ==
  IF FirstZero(s.map) # -1
  THEN [s EXCEPT !.insert_cursor = FirstZero(s.map)]
  ELSE [s EXCEPT !.components = [T \in DOMAIN s.components |-> Append(s.components[T], None)],
                 !.map = Append(s.map, 0),
                 !.entity_count = s.entity_count + 1,
                 !.insert_cursor = s.entity_count]

\* The body shared by insert_checked (cursor) and
\* insert_component_into_entity_by_id_checked (given index).
AutoRegister(s, T) ==
  IF T \notin DOMAIN s.bit_masks
  THEN LET r == register_component(s, T)
       IN  IF r.res # "ok" THEN r ELSE fill_new_component_checked(r.s, T)
  ELSE Outcome(s, "ok")

\* The write that pushes the new value onto the column instead of replacing
\* the cell.
WriteCell_appending(s, T, data, map_index) ==
  IF T \notin DOMAIN s.components
  THEN Outcome(s, "err")
  ELSE IF map_index >= Len(s.components[T])
  THEN Outcome(s, "err")
  ELSE LET s1 == [s EXCEPT !.components[T] = Append(@, Some(data))]
       IN  IF map_index >= Len(s1.map)
           THEN Outcome(s1, "panic")
           ELSE Outcome([s1 EXCEPT !.map = SetAt(@, map_index,
                                     BitOr(At(s1.map, map_index), s1.bit_masks[T]))], "ok")

WriteCell(s, T, data, map_index) ==
  IF T \notin DOMAIN s.components
  THEN Outcome(s, "err")
  ELSE IF map_index >= Len(s.components[T])
  THEN Outcome(s, "err")
  ELSE LET s1 == [s EXCEPT !.components[T] = SetAt(@, map_index, Some(data))]
       IN  IF map_index >= Len(s1.map)
           THEN Outcome(s1, "panic")
           ELSE Outcome([s1 EXCEPT !.map = SetAt(@, map_index,
                                     BitOr(At(s1.map, map_index), s1.bit_masks[T]))], "ok")

\* insert_checked writing into slot 0 instead of the slot the last
\* create_entity designated.
insert_checked_first(s, T, data) ==
  LET r == AutoRegister(s, T)
  IN  IF r.res # "ok" THEN r ELSE WriteCell(r.s, T, data, 0)

insert_checked(s, T, data) ==
  LET r == AutoRegister(s, T)
  IN  IF r.res # "ok" THEN r ELSE WriteCell(r.s, T, data, r.s.insert_cursor)

insert_component_into_entity_by_id_checked(s, T, data, map_index) ==
  LET r == AutoRegister(s, T)
  IN  IF r.res # "ok" THEN r ELSE WriteCell(r.s, T, data, map_index)

\* The removal without its guard: the unconditional xor the comment in the source
\* warns of (3 ^ 1 = 2, 2 ^ 1 = 3).
delete_component_by_entity_id_toggling(s, T, index) ==
  IF T \notin DOMAIN s.bit_masks
  THEN Outcome(s, "err")
  ELSE IF index >= Len(s.map)
  THEN Outcome(s, "panic")
  ELSE Outcome([s EXCEPT !.map = SetAt(@, index, BitXor(At(s.map, index), s.bit_masks[T]))],
               "ok")

delete_component_by_entity_id_checked(s, T, index) ==
  IF T \notin DOMAIN s.bit_masks
  THEN Outcome(s, "err")
  ELSE IF index >= Len(s.map)
  THEN Outcome(s, "panic")
  ELSE LET mask == s.bit_masks[T]
       IN  IF BitAnd(At(s.map, index), mask) # 0
           THEN Outcome([s EXCEPT !.map = SetAt(@, index, BitXor(At(s.map, index), mask))], "ok")
           ELSE Outcome(s, "ok")

\* delete_component_checked that clears the masks but forgets remove_entry.
delete_component_checked_keeping(s, T) ==
  IF T \notin DOMAIN s.bit_masks
  THEN Outcome(s, "err")
  ELSE LET bitmask == s.bit_masks[T]
       IN  Outcome([s EXCEPT !.map = [i \in 1..Len(s.map) |-> BitXor(s.map[i], bitmask)]], "ok")

delete_component_checked(s, T) ==
  IF T \notin DOMAIN s.bit_masks
  THEN Outcome(s, "err")
  ELSE LET bitmask == s.bit_masks[T]
       IN  Outcome([s EXCEPT !.bit_masks = HashRemove(s.bit_masks, T),
                             !.map = [i \in 1..Len(s.map) |-> BitXor(s.map[i], bitmask)]], "ok")

delete_entity_by_id(s, index) ==
  IF index >= Len(s.map)
  THEN Outcome(s, "err")
  ELSE Outcome([s EXCEPT !.map = SetAt(@, index, 0)], "ok")

get_bitmask(s, T) == IF T \in DOMAIN s.bit_masks THEN Some(s.bit_masks[T]) ELSE None

----------------------------------------------------------------------------
\* Query

\* Query::new
QueryNew == [map |-> 0, type_ids |-> << >>]

\* with_component_checked adding the bit to the mask (+=) instead of or-ing it.
with_component_checked_adding(s, q, T) ==
  IF get_bitmask(s, T) # None
  THEN Outcome([map |-> q.map + get_bitmask(s, T)[1],
                type_ids |-> Append(q.type_ids, T)], "ok")
  ELSE Outcome(q, "err")

with_component_checked(s, q, T) ==
  IF get_bitmask(s, T) # None
  THEN Outcome([map |-> BitOr(q.map, get_bitmask(s, T)[1]),
                type_ids |-> Append(q.type_ids, T)], "ok")
  ELSE Outcome(q, "err")

\* The indexes i, i+1, .. of m whose mask contains every bit of wanted, ascending
\* (iter().enumerate().filter_map(..).collect()).
RECURSIVE FilterIndexes(_, _, _)
FilterIndexes(m, wanted, i) ==
  IF i >= Len(m) THEN << >>
  ELSE (IF BitAnd(At(m, i), wanted) = wanted THEN <<i>> ELSE << >>)
         \o FilterIndexes(m, wanted, i + 1)

\* read_indexes_to_buf filling the buffer from the last slot down.
read_indexes_to_buf_descending(s, q) ==
  LET buf == FilterIndexes(s.map, q.map, 0)
  IN  [k \in 1..Len(buf) |-> buf[Len(buf) + 1 - k]]

read_indexes_to_buf(s, q) == FilterIndexes(s.map, q.map, 0)

\* A ComponentType handed out by a query: the Rc of the cell of slot `slot` in
\* the column of `ty`; val is the Option cloned from the cell.
Handle(T, slot, val) == [ty |-> T, slot |-> slot, val |-> val]

\* One column of Query::run: the cells of the matching indexes, the empty ones
\* dropped (into_iter().flatten()).
RunColumn(s, T, indexes) ==
  SelectSeq([k \in 1..Len(indexes) |-> Handle(T, indexes[k], At(s.components[T], indexes[k]))],
            LAMBDA h : h.val # None)

\* components.get(typeid).unwrap() or components[*index] panics
RunPanics(s, q, indexes) ==
  \E k \in 1..Len(q.type_ids) :
    \/ q.type_ids[k] \notin DOMAIN s.components
    \/ \E j \in 1..Len(indexes) : indexes[j] >= Len(s.components[q.type_ids[k]])

\* run returning vec![] as soon as no entity matches, as it does for an empty
\* query.
run_returning_early(s, q) ==
  IF q.map = 0 \/ FilterIndexes(s.map, q.map, 0) = << >>
  THEN Outcome(<< >>, "ok")
  ELSE LET indexes == FilterIndexes(s.map, q.map, 0)
       IN  IF RunPanics(s, q, indexes)
           THEN Outcome(<< >>, "panic")
           ELSE Outcome([k \in 1..Len(q.type_ids) |-> RunColumn(s, q.type_ids[k], indexes)],
                        "ok")

run(s, q) ==
  IF q.map = 0
  THEN Outcome(<< >>, "ok")
  ELSE LET indexes == FilterIndexes(s.map, q.map, 0)
       IN  IF RunPanics(s, q, indexes)
           THEN Outcome(<< >>, "panic")
           ELSE Outcome([k \in 1..Len(q.type_ids) |-> RunColumn(s, q.type_ids[k], indexes)],
                        "ok")

\* run_entity without its test of an empty mask: every mask contains no bits.
run_entity_unguarded(s, q) ==
  LET indexes == FilterIndexes(s.map, q.map, 0)
  IN  Outcome([k \in 1..Len(indexes) |-> [id |-> indexes[k]]], "ok")

run_entity(s, q) ==
  IF q.map = 0
  THEN Outcome(<< >>, "err")
  ELSE LET indexes == FilterIndexes(s.map, q.map, 0)
       IN  Outcome([k \in 1..Len(indexes) |-> [id |-> indexes[k]]], "ok")

\* Query::new(&ents).with_component_checked::<T1>()?.with_component_checked::<T2>()? ..
RECURSIVE WithComponents(_, _, _)
WithComponents(s, q, tys) ==
  IF tys = << >> THEN Outcome(q, "ok")
  ELSE LET r == with_component_checked(s, q, Head(tys))
       IN  IF r.res # "ok" THEN r ELSE WithComponents(s, r.s, Tail(tys))

\* The type lists a caller may add to a query: one to MaxQueryTypes types.
TypeLists == UNION {[1..n -> TypeIds] : n \in 1..MaxQueryTypes}

\* Those of them every type of which is registered now.
RegisteredTypeLists == {tys \in TypeLists : WithComponents(Ents, QueryNew, tys).res = "ok"}

\* The query built from such a list on the current store.
QueryOf(tys) == WithComponents(Ents, QueryNew, tys).s

----------------------------------------------------------------------------
\* QueryEntity

\* QueryEntity::new(id, entities)
QueryEntity(id) == [id |-> id]

\* What a lookup hands back: Ok(Ref) reading val, or Err(err).
Fetched(val, res, err) == [val |-> val, res |-> res, err |-> err]

get_component(s, qe, T) ==
  IF T \notin DOMAIN s.components
  THEN Fetched(None, "err", "UnregisteredComponentError")
  ELSE IF qe.id >= Len(s.components[T])
  THEN Fetched(None, "err", "OutOfBoundsIdError")
  ELSE IF At(s.components[T], qe.id) = None
  THEN Fetched(None, "err", "NonexistentComponentDataError")
  ELSE IF ~CanBorrow(s.borrows[<<T, qe.id>>])
  THEN Fetched(None, "panic", "BorrowError")
  ELSE Fetched(At(s.components[T], qe.id), "ok", "")

\* get_component_mut with one borrow flag for the whole column.
get_component_mut_per_table(s, qe, T) ==
  IF T \notin DOMAIN s.components
  THEN Fetched(None, "err", "UnregisteredComponentError")
  ELSE IF qe.id >= Len(s.components[T])
  THEN Fetched(None, "err", "OutOfBoundsIdError")
  ELSE IF At(s.components[T], qe.id) = None
  THEN Fetched(None, "err", "NonexistentComponentDataError")
  ELSE IF \E c \in Cells : c[1] = T /\ ~CanBorrowMut(s.borrows[c])
  THEN Fetched(None, "panic", "BorrowMutError")
  ELSE Fetched(At(s.components[T], qe.id), "ok", "")

get_component_mut(s, qe, T) ==
  IF T \notin DOMAIN s.components
  THEN Fetched(None, "err", "UnregisteredComponentError")
  ELSE IF qe.id >= Len(s.components[T])
  THEN Fetched(None, "err", "OutOfBoundsIdError")
  ELSE IF At(s.components[T], qe.id) = None
  THEN Fetched(None, "err", "NonexistentComponentDataError")
  ELSE IF ~CanBorrowMut(s.borrows[<<T, qe.id>>])
  THEN Fetched(None, "panic", "BorrowMutError")
  ELSE Fetched(At(s.components[T], qe.id), "ok", "")

----------------------------------------------------------------------------
\* AutoQuery, AutoQueryMut and the single-type FnQuery

\* The cells of a column with their slots (into_iter().enumerate()).
Enumerate(T, col) == [k \in 1..Len(col) |-> Handle(T, k - 1, col[k])]

\* .map(|c| c.borrow()).collect(): a Ref of every selected cell, or the panic
\* of the first borrow() that finds a RefMut live.
BorrowAll(s, hs) ==
  IF \A k \in 1..Len(hs) : CanBorrow(s.borrows[<<hs[k].ty, hs[k].slot>>])
  THEN Outcome(hs, "ok")
  ELSE Outcome(<< >>, "panic")

\* .map(|c| c.borrow_mut()).collect(): a RefMut of every selected cell, or the
\* panic of the first borrow_mut() that finds a handle live.
BorrowAllMut(s, hs) ==
  IF \A k \in 1..Len(hs) : CanBorrowMut(s.borrows[<<hs[k].ty, hs[k].slot>>])
  THEN Outcome(hs, "ok")
  ELSE Outcome(<< >>, "panic")

\* next() taking from the front of the Vec instead (remove(0)).
PopAll_front(v) == v

\* The successive results of next(), which is components.pop(): the collected
\* Vec read from its end.
PopAll(v) == [k \in 1..Len(v) |-> v[Len(v) + 1 - k]]

\* AutoQuery::len: the masks that contain the bit of T (it panics without a
\* bitmask of T).
AutoQueryLen(s, T) ==
  IF T \notin DOMAIN s.bit_masks
  THEN Outcome(0, "panic")
  ELSE Outcome(Len(FilterIndexes(s.map, s.bit_masks[T], 0)), "ok")

\* AutoQuery::into_iter without its mask test: every full cell of the column.
AutoQueryIntoIter_unmasked(s, T) ==
  IF T \notin DOMAIN s.bit_masks \/ T \notin DOMAIN s.components
  THEN Outcome(<< >>, "panic")
  ELSE IF Len(s.components[T]) > Len(s.map)
  THEN Outcome(<< >>, "panic")
  ELSE BorrowAll(s, SelectSeq(Enumerate(T, s.components[T]), LAMBDA h : h.val # None))

\* AutoQuery::into_iter: the Vec<Ref<T>> it collects.
AutoQueryIntoIter(s, T) ==
  IF T \notin DOMAIN s.bit_masks \/ T \notin DOMAIN s.components
  THEN Outcome(<< >>, "panic")
  ELSE IF Len(s.components[T]) > Len(s.map)
  THEN Outcome(<< >>, "panic")
  ELSE LET selfmap == s.bit_masks[T]
       IN  BorrowAll(s, SelectSeq(Enumerate(T, s.components[T]),
                                  LAMBDA h : /\ BitAnd(At(s.map, h.slot), selfmap) = selfmap
                                             /\ h.val # None))

\* for c in query.auto::<T>(): what the loop sees, in the order it sees it.
auto(s, T) ==
  LET r == AutoQueryIntoIter(s, T)
  IN  IF r.res # "ok" THEN r ELSE Outcome(PopAll(r.s), "ok")

\* AutoQueryMut::into_iter: the Vec<RefMut<T>> it collects.
AutoQueryMutIntoIter(s, T) ==
  IF T \notin DOMAIN s.components
  THEN Outcome(<< >>, "panic")
  ELSE BorrowAllMut(s, SelectSeq(Enumerate(T, s.components[T]), LAMBDA h : h.val # None))

\* for c in query.auto_mut::<T>()
auto_mut(s, T) ==
  LET r == AutoQueryMutIntoIter(s, T)
  IN  IF r.res # "ok" THEN r ELSE Outcome(PopAll(r.s), "ok")

\* FnQuery<T>::into_iter, for one type
FnQueryIntoIter(s, T) ==
  IF T \notin DOMAIN s.bit_masks \/ T \notin DOMAIN s.components
  THEN Outcome(<< >>, "panic")
  ELSE IF Len(s.components[T]) > Len(s.map)
  THEN Outcome(<< >>, "panic")
  ELSE LET selfmap == s.bit_masks[T]
       IN  BorrowAll(s, SelectSeq(Enumerate(T, s.components[T]),
                                  LAMBDA h : /\ BitAnd(At(s.map, h.slot), selfmap) = selfmap
                                             /\ h.val # None))

\* query.query_fn(f) with f taking FnQuery<T>: what f's loop sees.
query_fn(s, T) ==
  LET r == FnQueryIntoIter(s, T)
  IN  IF r.res # "ok" THEN r ELSE Outcome(PopAll(r.s), "ok")

\* FnQueryMut<T>::into_iter: the Vec<RefMut<T>> it collects.
FnQueryMutIntoIter(s, T) ==
  IF T \notin DOMAIN s.bit_masks \/ T \notin DOMAIN s.components
  THEN Outcome(<< >>, "panic")
  ELSE IF Len(s.components[T]) > Len(s.map)
  THEN Outcome(<< >>, "panic")
  ELSE LET selfmap == s.bit_masks[T]
       IN  BorrowAllMut(s, SelectSeq(Enumerate(T, s.components[T]),
                                     LAMBDA h : /\ BitAnd(At(s.map, h.slot), selfmap) = selfmap
                                                /\ h.val # None))

\* A function taking FnQueryMut<T>: what its loop sees.
query_fn_mut(s, T) ==
  LET r == FnQueryMutIntoIter(s, T)
  IN  IF r.res # "ok" THEN r ELSE Outcome(PopAll(r.s), "ok")

\* The assignment that changes a private copy of the value and leaves the cell
\* as it was.
RefMutAssign_copy(s, T, e, data) == s

\* *handle = data through a RefMut of the cell: the cell holds data from then
\* on.
RefMutAssign(s, T, e, data) ==
  [s EXCEPT !.components[T] = SetAt(@, e, Some(data))]

----------------------------------------------------------------------------
\* Resources

\* Rc::new(RefCell::new(res))
RefCellNew(res) == [value |-> res, shared |-> 0, exclusive |-> 0]

\* An add that leaves the value a type already has (entry().or_insert()).
add_keeping(vs, T, res) ==
  IF T \in DOMAIN vs THEN vs ELSE HashInsert(vs, T, RefCellNew(res))

add(vs, T, res) == HashInsert(vs, T, RefCellNew(res))

get_ref(vs, T) ==
  IF T \in DOMAIN vs
  THEN IF CanBorrow(vs[T])
       THEN Fetched(Some(vs[T].value), "ok", "")
       ELSE Fetched(None, "panic", "BorrowError")
  ELSE Fetched(None, "err", "NonexistentResourceError")

get_mut(vs, T) ==
  IF T \in DOMAIN vs
  THEN IF CanBorrowMut(vs[T])
       THEN Fetched(Some(vs[T].value), "ok", "")
       ELSE Fetched(None, "panic", "BorrowMutError")
  ELSE Fetched(None, "err", "NonexistentResourceError")

\* What delete leaves and returns.
Deleted(vs, val, res, err) == [vs |-> vs, val |-> val, res |-> res, err |-> err]

\* A delete that returns the value and keeps the entry (get in place of
\* remove).
delete_keeping(vs, T) ==
  IF T \in DOMAIN vs
  THEN Deleted(vs, Some(vs[T].value), "ok", "")
  ELSE Deleted(vs, None, "err", "NonexistentResourceError")

\* delete takes &mut self: no handle of a resource is live, the Rc is the only
\* one and try_unwrap succeeds.
delete(vs, T) ==
  IF T \in DOMAIN vs
  THEN Deleted(HashRemove(vs, T), Some(vs[T].value), "ok", "")
  ELSE Deleted(vs, None, "err", "NonexistentResourceError")

\* An assignment that changes a private copy and leaves the resource as it
\* was.
ResMutAssign_copy(vs, T, data) == vs

\* hp.0 = data through the RefMut of a resource
ResMutAssign(vs, T, data) == [vs EXCEPT ![T].value = data]

\* Res::get and ResMut::get: get_ref / get_mut, unwrapped
Unwrap(f) == IF f.res = "err" THEN Fetched(None, "panic", f.err) ELSE f

ResGet(vs, T) == Unwrap(get_ref(vs, T))

ResMutGet(vs, T) == Unwrap(get_mut(vs, T))

----------------------------------------------------------------------------
\* The state machine: one action per call of the API

\* A call as the caller sees it (for a call on the resources, idx is the value
\* it was given, saw or returned, and hit of an add: the type had a value).  hit: the call found the bit of T set in the mask
\* of slot idx (an insert: and a value in the cell); twice: the call before it was the same call with the same
\* arguments, returned Ok and found the bit set.
Call(op, T, idx, res) ==
  [op |-> op, ty |-> T, idx |-> idx, res |-> res, hit |-> FALSE, twice |-> FALSE]

HasBit(s, T, i) ==
  /\ T \in DOMAIN s.bit_masks
  /\ i < Len(s.map)
  /\ BitAnd(At(s.map, i), s.bit_masks[T]) # 0

\* The store a call leaves behind.
Apply(s) ==
  /\ calls' = calls + 1
  /\ components' = s.components
  /\ entity_count' = s.entity_count
  /\ bit_masks' = s.bit_masks
  /\ map' = s.map
  /\ insert_cursor' = s.insert_cursor
  /\ width' = s.width
  /\ overflow_checks' = s.overflow_checks
  /\ borrows' = s.borrows
  /\ UNCHANGED <<values, written>>

\* A call within the budget of calls.
Store(s) ==
  /\ calls < MaxCalls
  /\ Apply(s)

NoCarry == [T \in TypeIds |-> None]

\* The registrations after a call that left the store s and registers a type
\* only when it meets a new one (the inserts).
AutoRegistered(s, T) ==
  IF registrations # None /\ T \notin DOMAIN bit_masks /\ T \in DOMAIN s.bit_masks
  THEN Some(Append(registrations[1], T))
  ELSE registrations

\* Entities::default(), before any call
Empty ==
  /\ components = EmptyHash
  /\ entity_count = 0
  /\ bit_masks = EmptyHash
  /\ map = << >>
  /\ insert_cursor = 0
  /\ borrows = NoBorrows
  /\ values = EmptyHash
  /\ written = NoCarry
  /\ last = Call("default", 0, -1, "ok")
  /\ carried = << >>
  /\ freed = {}
  /\ reused = {}
  /\ registrations = Some(<< >>)
  /\ calls = 0

\* The store as built: masks of MaskWidth bits; overflow does not arise with
\* fewer types than that, so one build stands for both.
Init ==
  /\ Empty
  /\ width = MaskWidth
  /\ overflow_checks = TRUE

\* The same store with masks of SmallWidth bits, in a build of either kind.
InitSmallWidth ==
  /\ Empty
  /\ width = SmallWidth
  /\ overflow_checks \in BOOLEAN

RegisterComponent ==
  \E T \in TypeIds :
    /\ Store(register_component(Ents, T).s)
    /\ last' = Call("register_component", T, -1, register_component(Ents, T).res)
    /\ registrations' = IF register_component(Ents, T).res # "ok" THEN registrations
                         ELSE IF T \in DOMAIN components THEN None
                         ELSE AutoRegistered(register_component(Ents, T).s, T)
    /\ UNCHANGED <<carried, freed, reused>>

CreateEntity ==
  /\ FirstZero(map) # -1 \/ entity_count < MaxEntities
  /\ Store(create_entity(Ents))
  /\ last' = Call("create_entity", 0, -1, "ok")
  /\ carried' = IF FirstZero(map) # -1 THEN carried ELSE Append(carried, NoCarry)
  /\ freed' = freed \ {create_entity(Ents).insert_cursor}
  /\ reused' = reused \cup (freed \cap {create_entity(Ents).insert_cursor})
  /\ UNCHANGED registrations

Insert ==
  \E T \in TypeIds, data \in Data :
    LET r == insert_checked(Ents, T, data)
        i == r.s.insert_cursor
    IN  /\ Store(r.s)
        /\ last' = [Call("insert", T, i, r.res) EXCEPT
                       !.hit = HasBit(Ents, T, i) /\ get_component(Ents, QueryEntity(i), T).res = "ok"]
        /\ carried' = IF r.res = "ok" THEN [carried EXCEPT ![i + 1][T] = Some(data)] ELSE carried
        /\ freed' = IF r.res = "ok" THEN freed \ {i} ELSE freed
        /\ registrations' = AutoRegistered(r.s, T)
        /\ UNCHANGED reused

InsertById ==
  \E T \in TypeIds, data \in Data, i \in 0..MaxEntities :
    LET r == insert_component_into_entity_by_id_checked(Ents, T, data, i)
    IN  /\ Store(r.s)
        /\ last' = [Call("insert_component_into_entity_by_id", T, i, r.res) EXCEPT
                       !.hit = HasBit(Ents, T, i) /\ get_component(Ents, QueryEntity(i), T).res = "ok"]
        /\ carried' = IF r.res = "ok" THEN [carried EXCEPT ![i + 1][T] = Some(data)] ELSE carried
        /\ freed' = IF r.res = "ok" THEN freed \ {i} ELSE freed
        /\ registrations' = AutoRegistered(r.s, T)
        /\ UNCHANGED reused

DeleteComponentByEntityId ==
  \E T \in TypeIds, i \in 0..MaxEntities :
    LET r == delete_component_by_entity_id_checked(Ents, T, i)
    IN  /\ Store(r.s)
        /\ last' = [Call("delete_component_by_entity_id", T, i, r.res) EXCEPT
                       !.hit = HasBit(Ents, T, i),
                       !.twice = /\ last.op = "delete_component_by_entity_id"
                                 /\ last.ty = T /\ last.idx = i
                                 /\ last.res = "ok" /\ last.hit]
        /\ carried' = IF r.res = "ok" THEN [carried EXCEPT ![i + 1][T] = None] ELSE carried
        /\ UNCHANGED <<freed, reused, registrations>>

DeleteComponentOf(T) ==
  LET r == delete_component_checked(Ents, T)
  IN  /\ Apply(r.s)
      /\ last' = Call("delete_component", T, -1, r.res)
      /\ carried' = IF r.res = "ok"
                    THEN [i \in 1..Len(carried) |-> [carried[i] EXCEPT ![T] = None]]
                    ELSE carried
      /\ registrations' = IF r.res = "ok" THEN None ELSE registrations
      /\ UNCHANGED <<freed, reused>>

DeleteComponent ==
  /\ calls < MaxCalls
  /\ \E T \in TypeIds : DeleteComponentOf(T)

\* One more delete_component after the budget of calls is used up.
DeleteComponentLate ==
  /\ calls = MaxCalls
  /\ \E T \in TypeIds : DeleteComponentOf(T)

DeleteEntityById ==
  \E i \in 0..MaxEntities :
    LET r == delete_entity_by_id(Ents, i)
    IN  /\ Store(r.s)
        /\ last' = Call("delete_entity_by_id", 0, i, r.res)
        /\ carried' = IF r.res = "ok" THEN [carried EXCEPT ![i + 1] = NoCarry] ELSE carried
        /\ freed' = IF r.res = "ok" THEN freed \cup {i} ELSE freed
        /\ reused' = IF r.res = "ok" THEN reused \ {i} ELSE reused
        /\ UNCHANGED registrations

Next ==
  \/ RegisterComponent
  \/ CreateEntity
  \/ Insert
  \/ InsertById
  \/ DeleteComponentByEntityId
  \/ DeleteComponent
  \/ DeleteEntityById

Spec == Init /\ [][Next]_vars

\* The calls of section 8's "sequences of insert/delete operations": every call
\* but the explicit register_component.
NextInsertDelete ==
  \/ CreateEntity
  \/ Insert
  \/ InsertById
  \/ DeleteComponentByEntityId
  \/ DeleteComponent
  \/ DeleteEntityById

SpecInsertDelete == Init /\ [][NextInsertDelete]_vars

\* The calls of Spec, and a delete_component as the call after the last.
NextLate ==
  \/ Next
  \/ DeleteComponentLate

SpecLate == Init /\ [][NextLate]_vars

SpecSmallWidth == InitSmallWidth /\ [][Next]_vars

----------------------------------------------------------------------------
\* Queries over a populated store.  A Query, a QueryEntity and every handle
\* borrow the store (&'a Entities), so no call above runs while one is live:
\* the store changes only through the RefMut handles.

\* Entities::default() as a value
Default ==
  [components |-> EmptyHash, entity_count |-> 0, bit_masks |-> EmptyHash,
   map |-> << >>, insert_cursor |-> 0, width |-> MaskWidth,
   overflow_checks |-> TRUE, borrows |-> NoBorrows]

\* n times world.spawn().insert_checked(..): every entity gets a component of
\* type 1, the first one a component of type 2 as well.
RECURSIVE Spawned(_)
Spawned(n) ==
  IF n = 0 THEN Default
  ELSE LET s1 == insert_checked(create_entity(Spawned(n - 1)), 1, 1).s
       IN  IF n = 1 THEN insert_checked(s1, 2, 1).s ELSE s1

InitBorrow ==
  LET s == Spawned(MaxEntities)
  IN  /\ components = s.components
      /\ entity_count = s.entity_count
      /\ bit_masks = s.bit_masks
      /\ map = s.map
      /\ insert_cursor = s.insert_cursor
      /\ width = s.width
      /\ overflow_checks = s.overflow_checks
      /\ borrows = s.borrows
      /\ values = EmptyHash
      /\ written = NoCarry
      /\ last = Call("insert", 1, s.insert_cursor, "ok")
      /\ carried = [i \in 1..s.entity_count |->
                      [T \in TypeIds |-> IF T \in DOMAIN s.components
                                         THEN s.components[T][i] ELSE None]]
      /\ freed = {}
      /\ reused = {}
      /\ registrations = Some(<<1, 2>>)
      /\ calls = 0

\* The handles live at one time.
Live(bs) ==
  Cardinality({p \in Cells \X (1..(MaxHandles + MaxEntities)) :
                 p[2] <= bs[p[1]].shared + bs[p[1]].exclusive})

\* The borrow state once a Ref of each cell of hs is held.
WithRefs(bs, hs) ==
  [c \in Cells |-> IF \E k \in 1..Len(hs) : <<hs[k].ty, hs[k].slot>> = c
                   THEN [bs[c] EXCEPT !.shared = @ + 1] ELSE bs[c]]

\* The borrow state once a RefMut of each cell of hs is held.
WithRefMuts(bs, hs) ==
  [c \in Cells |-> IF \E k \in 1..Len(hs) : <<hs[k].ty, hs[k].slot>> = c
                   THEN [bs[c] EXCEPT !.exclusive = @ + 1] ELSE bs[c]]

\* What a call that only borrows leaves alone.
BorrowFrame ==
  UNCHANGED <<components, entity_count, bit_masks, map, insert_cursor, width,
              overflow_checks, values, written, carried, freed, reused,
              registrations, calls>>

GetComponent ==
  \E T \in TypeIds, e \in 0..MaxEntities :
    LET r == get_component(Ents, QueryEntity(e), T)
    IN  /\ r.res = "ok" => Live(borrows) < MaxHandles
        /\ borrows' = IF r.res = "ok"
                       THEN WithRefs(borrows, <<Handle(T, e, r.val)>>) ELSE borrows
        /\ last' = Call("get_component", T, e, r.res)
        /\ BorrowFrame

GetComponentMut ==
  \E T \in TypeIds, e \in 0..MaxEntities :
    LET r == get_component_mut(Ents, QueryEntity(e), T)
    IN  /\ r.res = "ok" => Live(borrows) < MaxHandles
        /\ borrows' = IF r.res = "ok"
                       THEN WithRefMuts(borrows, <<Handle(T, e, r.val)>>) ELSE borrows
        /\ last' = Call("get_component_mut", T, e, r.res)
        /\ BorrowFrame

\* for c in query.auto::<T>(), the loop keeping what it is given
Auto ==
  \E T \in TypeIds :
    LET r == auto(Ents, T)
    IN  /\ r.res = "ok" => Live(borrows) + Len(r.s) <= MaxHandles
        /\ borrows' = IF r.res = "ok" THEN WithRefs(borrows, r.s) ELSE borrows
        /\ last' = Call("auto", T, -1, r.res)
        /\ BorrowFrame

AutoMut ==
  \E T \in TypeIds :
    LET r == auto_mut(Ents, T)
    IN  /\ r.res = "ok" => Live(borrows) + Len(r.s) <= MaxHandles
        /\ borrows' = IF r.res = "ok" THEN WithRefMuts(borrows, r.s) ELSE borrows
        /\ last' = Call("auto_mut", T, -1, r.res)
        /\ BorrowFrame

QueryFn ==
  \E T \in TypeIds :
    LET r == query_fn(Ents, T)
    IN  /\ r.res = "ok" => Live(borrows) + Len(r.s) <= MaxHandles
        /\ borrows' = IF r.res = "ok" THEN WithRefs(borrows, r.s) ELSE borrows
        /\ last' = Call("query_fn", T, -1, r.res)
        /\ BorrowFrame

QueryFnMut ==
  \E T \in TypeIds :
    LET r == query_fn_mut(Ents, T)
    IN  /\ r.res = "ok" => Live(borrows) + Len(r.s) <= MaxHandles
        /\ borrows' = IF r.res = "ok" THEN WithRefMuts(borrows, r.s) ELSE borrows
        /\ last' = Call("query_fn_mut", T, -1, r.res)
        /\ BorrowFrame

\* The holder of a RefMut assigns through it.
Write ==
  \E c \in Cells, data \in Data :
    /\ borrows[c].exclusive > 0
    /\ components' = RefMutAssign(Ents, c[1], c[2], data).components
    /\ carried' = [carried EXCEPT ![c[2] + 1][c[1]] = Some(data)]
    /\ last' = Call("write", c[1], c[2], "ok")
    /\ UNCHANGED <<entity_count, bit_masks, map, insert_cursor, width,
                    overflow_checks, borrows, values, written, freed, reused,
                    registrations, calls>>

\* A Ref goes out of scope.
DropRef ==
  \E c \in Cells :
    /\ borrows[c].shared > 0
    /\ borrows' = [borrows EXCEPT ![c].shared = @ - 1]
    /\ last' = Call("drop", c[1], c[2], "ok")
    /\ BorrowFrame

\* A RefMut goes out of scope.
DropRefMut ==
  \E c \in Cells :
    /\ borrows[c].exclusive > 0
    /\ borrows' = [borrows EXCEPT ![c].exclusive = @ - 1]
    /\ last' = Call("drop_mut", c[1], c[2], "ok")
    /\ BorrowFrame

\* The value a call saw or returned, as the idx of the call: -1 for none.
Seen(val) == IF val = None THEN -1 ELSE val[1]

\* The handles of resources live at one time.
LiveResources(vs) ==
  Cardinality({p \in (DOMAIN vs) \X (1..MaxHandles) :
                 p[2] <= vs[p[1]].shared + vs[p[1]].exclusive})

\* What a call on the resources leaves alone.
ResourcesFrame ==
  UNCHANGED <<components, entity_count, bit_masks, map, insert_cursor, width,
              overflow_checks, borrows, carried, freed, reused, registrations, calls>>

\* world.insert_resource(res): &mut self, so no handle is live.
AddResource ==
  \E T \in TypeIds, res \in Data :
    /\ LiveResources(values) = 0
    /\ values' = add(values, T, res)
    /\ written' = [written EXCEPT ![T] = None]
    /\ last' = [Call("add", T, res, "ok") EXCEPT !.hit = T \in DOMAIN values]
    /\ ResourcesFrame

GetRef ==
  \E T \in TypeIds :
    LET r == get_ref(values, T)
    IN  /\ r.res = "ok" => LiveResources(values) < MaxHandles
        /\ values' = IF r.res = "ok" THEN [values EXCEPT ![T].shared = @ + 1] ELSE values
        /\ last' = Call("get_ref", T, Seen(r.val), r.res)
        /\ UNCHANGED written
        /\ ResourcesFrame

GetMut ==
  \E T \in TypeIds :
    LET r == get_mut(values, T)
    IN  /\ r.res = "ok" => LiveResources(values) < MaxHandles
        /\ values' = IF r.res = "ok" THEN [values EXCEPT ![T].exclusive = @ + 1] ELSE values
        /\ last' = Call("get_mut", T, Seen(r.val), r.res)
        /\ UNCHANGED written
        /\ ResourcesFrame

\* The holder of a RefMut of a resource assigns through it.
WriteResource ==
  \E T \in DOMAIN values, data \in Data :
    /\ values[T].exclusive > 0
    /\ values' = ResMutAssign(values, T, data)
    /\ written' = [written EXCEPT ![T] = Some(data)]
    /\ last' = Call("write", T, data, "ok")
    /\ ResourcesFrame

\* A Ref of a resource goes out of scope.
DropResourceRef ==
  \E T \in DOMAIN values :
    /\ values[T].shared > 0
    /\ values' = [values EXCEPT ![T].shared = @ - 1]
    /\ last' = Call("drop", T, -1, "ok")
    /\ UNCHANGED written
    /\ ResourcesFrame

\* A RefMut of a resource goes out of scope.
DropResourceRefMut ==
  \E T \in DOMAIN values :
    /\ values[T].exclusive > 0
    /\ values' = [values EXCEPT ![T].exclusive = @ - 1]
    /\ last' = Call("drop_mut", T, -1, "ok")
    /\ UNCHANGED written
    /\ ResourcesFrame

\* world.delete_resource::<T>(): &mut self, so no handle is live.
DeleteResource ==
  \E T \in TypeIds :
    LET r == delete(values, T)
    IN  /\ LiveResources(values) = 0
        /\ values' = r.vs
        /\ written' = IF r.res = "ok" THEN [written EXCEPT ![T] = None] ELSE written
        /\ last' = Call("delete", T, Seen(r.val), r.res)
        /\ ResourcesFrame

\* world.run_system(f), f reading res.get().0 of its Res<T>: the Ref lives for
\* the one expression.
RunSystemRes ==
  \E T \in TypeIds :
    LET r == ResGet(values, T)
    IN  /\ last' = Call("run_system_res", T, Seen(r.val), r.res)
        /\ UNCHANGED <<values, written>>
        /\ ResourcesFrame

\* world.run_system(f), f doing resmut.get().0 = data on its ResMut<T>: the
\* RefMut lives for the one statement.
RunSystemResMut ==
  \E T \in TypeIds, data \in Data :
    LET r == ResMutGet(values, T)
    IN  /\ values' = IF r.res = "ok" THEN ResMutAssign(values, T, data) ELSE values
        /\ written' = IF r.res = "ok" THEN [written EXCEPT ![T] = Some(data)] ELSE written
        /\ last' = Call("run_system_res_mut", T, data, r.res)
        /\ ResourcesFrame

NextResources ==
  \/ AddResource
  \/ GetRef
  \/ GetMut
  \/ WriteResource
  \/ DropResourceRef
  \/ DropResourceRefMut
  \/ DeleteResource
  \/ RunSystemRes
  \/ RunSystemResMut

\* Resources::default() is empty, as the store is.
SpecResources == Init /\ [][NextResources]_vars

NextBorrow ==
  \/ GetComponent
  \/ GetComponentMut
  \/ Auto
  \/ AutoMut
  \/ QueryFn
  \/ QueryFnMut
  \/ Write
  \/ DropRef
  \/ DropRefMut

SpecBorrow == InitBorrow /\ [][NextBorrow]_vars

----------------------------------------------------------------------------
\* Vocabulary of the properties

Slots == 0..(Len(map) - 1)

Registered == DOMAIN bit_masks

\* m & !bit
ClearBit(m, bit) == m - BitAnd(m, bit)

IsPowerOfTwo(n) == \E k \in 0..NumTypes : n = 2 ^ k

\* The cell of slot e in the column of T holds a value.
CellFull(T, e) ==
  /\ T \in DOMAIN components
  /\ e < Len(components[T])
  /\ At(components[T], e) # None

\* The mask of slot e contains every bit of wanted.
Contains(e, wanted) == BitAnd(At(map, e), wanted) = wanted

\* The elements of a sequence
Range(f) == {f[k] : k \in DOMAIN f}

\* The callers' view: slot e carries every type of the list.
CarriesAll(e, tys) == \A k \in DOMAIN tys : carried[e + 1][tys[k]] # None

\* The slots from i on that carry every type of the list, ascending.
RECURSIVE CarryingFrom(_, _)
CarryingFrom(tys, i) ==
  IF i >= Len(carried) THEN << >>
  ELSE (IF CarriesAll(i, tys) THEN <<i>> ELSE << >>) \o CarryingFrom(tys, i + 1)

\* What the callers expect in column j of a query for tys.
ExpectedColumn(tys, j) ==
  LET es == CarryingFrom(tys, 0)
  IN  [k \in DOMAIN es |-> carried[es[k] + 1][tys[j]]]

\* The values of a column of handles.
Values(col) == [k \in DOMAIN col |-> col[k].val]

----------------------------------------------------------------------------
\* C1: every storage column of every registered type is as long as the
\* entity-slot count, also for a type registered after entities exist.
C1_ColumnsSpanEntityCount ==
  \A T \in Registered : Len(components[T]) = entity_count

\* C2: after insert and delete calls only, the bit of a registered type T is
\* set in the mask of slot e exactly when slot e of T's column is non-empty.
C2_MaskMatchesColumn ==
  \A e \in Slots : \A T \in Registered :
    (BitAnd(At(map, e), bit_masks[T]) # 0) <=> CellFull(T, e)

\* C3: every registered type has a bitmask with exactly one bit set, and no two
\* registered types share a bitmask.
C3_BitmasksUnique ==
  \A T \in Registered :
    /\ IsPowerOfTwo(bit_masks[T])
    /\ \A U \in Registered : U # T => bit_masks[U] # bit_masks[T]

\* C4: register_component of a type that is already registered changes neither
\* its bitmask, nor its column, nor any entity mask.
C4_ReRegisterIsNoOp ==
  [][(last'.op = "register_component" /\ last'.ty \in Registered) =>
       /\ bit_masks'[last'.ty] = bit_masks[last'.ty]
       /\ components'[last'.ty] = components[last'.ty]
       /\ map' = map]_vars

\* C5: for every non-empty list of registered types, slot E is in the result of
\* read_indexes_to_buf, of run_entity and of run exactly when E's mask contains
\* every bit of the query's mask.
C5_AndFilter ==
  \A tys \in RegisteredTypeLists :
    LET q == QueryOf(tys)
        buf == read_indexes_to_buf(Ents, q)
        ents == run_entity(Ents, q)
        cols == run(Ents, q)
    IN  /\ ents.res = "ok"
        /\ cols.res = "ok"
        /\ \A E \in Slots :
             /\ (E \in Range(buf)) <=> Contains(E, q.map)
             /\ (\E k \in DOMAIN ents.s : ents.s[k].id = E) <=> Contains(E, q.map)
             /\ (\A j \in DOMAIN cols.s : \E k \in DOMAIN cols.s[j] : cols.s[j][k].slot = E)
                  <=> Contains(E, q.map)

\* C6: column j of Query::run for T1..Tn holds, in slot order, the values last
\* inserted for (E, Tj) for exactly the entities E that carry all of T1..Tn.
C6_RunReturnsCarriedValues ==
  \A tys \in RegisteredTypeLists :
    LET cols == run(Ents, QueryOf(tys))
    IN  /\ cols.res = "ok"
        /\ Len(cols.s) = Len(tys)
        /\ \A j \in DOMAIN tys : Values(cols.s[j]) = ExpectedColumn(tys, j)

\* C7: every column of Query::run is as long as the list of matching indexes,
\* and its i-th element belongs to the i-th matching slot.
C7_RunColumnsAligned ==
  \A tys \in RegisteredTypeLists :
    LET q == QueryOf(tys)
        buf == read_indexes_to_buf(Ents, q)
        cols == run(Ents, q)
    IN  /\ cols.res = "ok"
        /\ \A j \in DOMAIN cols.s :
             /\ Len(cols.s[j]) = Len(buf)
             /\ \A i \in DOMAIN cols.s[j] : cols.s[j][i].slot = buf[i]

C9_DeleteComponentClearsOnlyItsBit ==
  [][(last'.op = "delete_component" /\ last'.res = "ok") =>
       /\ Len(map') = Len(map)
       /\ \A e \in Slots : At(map', e) = ClearBit(At(map, e), bit_masks[last'.ty])]_vars

\* C10: while a slot deleted by delete_entity_by_id has not been reused,
\* create_entity appends nothing: entity_count, the mask list and every column
\* keep their lengths, and the insert cursor moves to the lowest slot whose
\* mask is zero.
C10_CreateReusesFreedSlot ==
  [][(last'.op = "create_entity" /\ freed # {}) =>
       /\ entity_count' = entity_count
       /\ Len(map') = Len(map)
       /\ \A T \in DOMAIN components : Len(components'[T]) = Len(components[T])
       /\ FirstZero(map) # -1
       /\ insert_cursor' = FirstZero(map)]_vars


----------------------------------------------------------------------------
\* Vocabulary of the query paths

\* The entity views run_entity hands out on the current store, over the queries
\* a caller can build.
Views ==
  UNION {Range(run_entity(Ents, QueryOf(tys)).s) : tys \in RegisteredTypeLists}

\* The handles Query::run hands out on the current store, over the same queries.
RunHandles ==
  UNION {UNION {Range(col) : col \in Range(run(Ents, QueryOf(tys)).s)} :
           tys \in RegisteredTypeLists}

\* The handles the loops over auto::<T>() and auto_mut::<T>() see.
AutoHandles(T) == Range(auto(Ents, T).s) \cup Range(auto_mut(Ents, T).s)

\* C11: in a slot that create_entity handed out again after delete_entity_by_id,
\* every query path (Query::run, get_component and get_component_mut on a view
\* from run_entity, auto and auto_mut) shows for each type exactly the value put
\* into the new entity, and nothing for a type only the old occupant had.
C11_ReusedSlotShowsOnlyNewData ==
  \A e \in reused, T \in TypeIds :
    /\ \A h \in RunHandles \cup AutoHandles(T) :
         h.slot = e => h.val = carried[e + 1][h.ty]
    /\ QueryEntity(e) \in Views =>
         /\ get_component(Ents, QueryEntity(e), T).val = carried[e + 1][T]
         /\ get_component_mut(Ents, QueryEntity(e), T).val = carried[e + 1][T]

\* Query::new(&ents).with_component::<T>().run() on the current store
RunOne(T) == run(Ents, QueryOf(<<T>>))

Holding(T) == {e \in Slots : Contains(e, bit_masks[T]) /\ CellFull(T, e)}

\* C13: iterating an AutoQuery, and a single-type FnQuery, yields the components
\* in descending slot order: each next() returns the value of a lower slot than
\* the one before, every slot holding T is visited, and then next() is None
\* (slots 0, 1, 2 holding 15, 6, 12 give 12, 6, 15).
C13_AutoYieldsDescending ==
  \A T \in Registered :
    \A seen \in {auto(Ents, T), query_fn(Ents, T)} :
      /\ seen.res = "ok"
      /\ \A j, k \in 1..Len(seen.s) : j < k => seen.s[j].slot > seen.s[k].slot
      /\ {seen.s[k].slot : k \in 1..Len(seen.s)} = Holding(T)
      /\ \A k \in 1..Len(seen.s) :
           seen.s[k] = Handle(T, seen.s[k].slot, At(components[T], seen.s[k].slot))

\* Two slots hold different values of T and the loop has seen both.
C13_Witness ==
  \E T \in Registered :
    /\ Cardinality(Holding(T)) >= 2
    /\ Len(auto(Ents, T).s) >= 2
    /\ auto(Ents, T).s[1].val # auto(Ents, T).s[2].val
    /\ query_fn(Ents, T).s = auto(Ents, T).s

\* C14 as stated: a query with no types yields an empty result and no error in
\* both modes: run returns an empty list and run_entity an empty list of views.
C14_NoTypesYieldsEmpty ==
  /\ run(Ents, QueryNew) = Outcome(<< >>, "ok")
  /\ run_entity(Ents, QueryNew) = Outcome(<< >>, "ok")

\* C14 amended: on a query with no types run returns an empty list and no error,
\* and run_entity returns an error and no entity view.
C14_NoTypesRunEmptyRunEntityErr ==
  /\ run(Ents, QueryNew) = Outcome(<< >>, "ok")
  /\ run_entity(Ents, QueryNew) = Outcome(<< >>, "err")

\* An entity with components exists while the query with no types is run.
C14_Witness ==
  /\ \E e \in Slots : At(map, e) # 0
  /\ run(Ents, QueryNew).s = << >>
  /\ run_entity(Ents, QueryNew).res = "err"

\* The queries with_component_checked is called on: the new one and those
\* that already ask for one registered type.
ShortQueries == {QueryNew} \cup {QueryOf(<<U>>) : U \in Registered}

\* Bit k of n
Bit(n, k) == (n \div (2 ^ k)) % 2

\* C15: with_component_checked::<T>() on a type that is not registered returns
\* an error, without a panic, and leaves the query's mask and type list as they
\* were; on a registered type it returns Ok, the mask becomes the old mask or-ed
\* with T's bit, and T is appended to the type list.
C15_WithComponentChecked ==
  \A q \in ShortQueries, T \in TypeIds :
    LET r == with_component_checked(Ents, q, T)
    IN  IF T \notin Registered
        THEN r.res = "err" /\ r.s = q
        ELSE /\ r.res = "ok"
             /\ r.s.type_ids = q.type_ids \o <<T>>
             /\ \A k \in 0..(NumTypes + 1) :
                  Bit(r.s.map, k) = 1 <=> (Bit(q.map, k) = 1 \/ Bit(bit_masks[T], k) = 1)
             /\ r.s.map < 2 ^ (NumTypes + 2)

\* A query that already asks for a registered type is asked to add it again,
\* and to add a type that is not registered.
C15_Witness ==
  \E q \in ShortQueries, T \in TypeIds, U \in Registered :
    /\ T \notin Registered
    /\ U \in Range(q.type_ids)
    /\ with_component_checked(Ents, q, T).res = "err"
    /\ with_component_checked(Ents, q, U).res = "ok"

\* The calls that register their type: register_component and the two inserts.
Registering == {"register_component", "insert", "insert_component_into_entity_by_id"}

\* C16: after delete_component_checked::<T>() returned Ok, T is not registered;
\* with_component_checked::<T>() returns an error in every state in which T is
\* deregistered; T becomes registered again only by a register_component or
\* an insert of T; and delete_component_checked::<T>() on a T that is not
\* registered returns an error and changes no mask, column or registration.
C16_DeleteComponentUnregisters ==
  [][/\ (last'.op = "delete_component" /\ last'.res = "ok") =>
          last'.ty \notin DOMAIN bit_masks'
     /\ \A T \in DOMAIN components' \ DOMAIN bit_masks' :
          \A q \in ShortQueries' : with_component_checked(Ents', q, T) = Outcome(q, "err")
     /\ \A T \in DOMAIN bit_masks' \ DOMAIN bit_masks :
          last'.op \in Registering /\ last'.ty = T
     /\ (last'.op = "delete_component" /\ last'.ty \notin DOMAIN bit_masks) =>
          /\ last'.res = "err"
          /\ map' = map
          /\ bit_masks' = bit_masks
          /\ components' = components]_vars

\* A second delete_component_checked::<T>() has just returned its error: T has
\* a column, so it was registered, and no bit, so an earlier one succeeded.
C16_Witness ==
  /\ last.op = "delete_component"
  /\ last.res = "err"
  /\ last.ty \in DOMAIN components \ Registered
  /\ \E e \in Slots : At(map, e) # 0

\* The types delete_component took out of bit_masks and nothing registered
\* since: they still have their column.
Deregistered == DOMAIN components \ Registered

\* C17: once delete_component::<T>() has deregistered T, get_component::<T>()
\* and get_component_mut::<T>() return the unregistered-type error on every
\* entity, and no query path (run, auto, auto_mut, query_fn) yields a T.
C17_DeregisteredTypeUnreachable ==
  \A T \in Deregistered :
    /\ \A e \in Slots :
         /\ get_component(Ents, QueryEntity(e), T)
              = Fetched(None, "err", "UnregisteredComponentError")
         /\ get_component_mut(Ents, QueryEntity(e), T)
              = Fetched(None, "err", "UnregisteredComponentError")
    /\ \A h \in RunHandles \cup AutoHandles(T) \cup Range(query_fn(Ents, T).s) : h.ty # T

\* C18: delete_component_by_entity_id_checked::<T>(index) with an index at or
\* past the number of slots returns an error, not a panic, and leaves every
\* mask as it was.
C18_DeleteFromEntityOutOfRange ==
  [][(last'.op = "delete_component_by_entity_id" /\ last'.idx >= Len(map)) =>
       (last'.res = "err" /\ map' = map)]_vars

\* C19: delete_entity_by_id(index) and
\* insert_component_into_entity_by_id_checked(data, index) with an index at or
\* past the number of slots return an error, not a panic, and change no entity
\* mask and no cell of any column.
C19_OutOfRangeChangesNothing ==
  [][(/\ last'.op \in {"delete_entity_by_id", "insert_component_into_entity_by_id"}
      /\ last'.idx >= Len(map)) =>
       /\ last'.res = "err"
       /\ map' = map
       /\ \A T \in DOMAIN components :
            \A e \in 0..(Len(components[T]) - 1) :
              /\ T \in DOMAIN components'
              /\ e < Len(components'[T])
              /\ At(components'[T], e) = At(components[T], e)]_vars

\* C20: an insert of a T into a slot that already holds a T (T's bit in the
\* mask, a value in the cell) overwrites: it returns Ok, the masks, the entity
\* count and the length of every column stay as they were, the cell holds the
\* value just inserted, and no other cell changes.
C20_InsertOverwrites ==
  [][(/\ last'.op \in {"insert", "insert_component_into_entity_by_id"}
      /\ HasBit(Ents, last'.ty, last'.idx)
      /\ CellFull(last'.ty, last'.idx)) =>
       /\ last'.res = "ok"
       /\ map' = map
       /\ entity_count' = entity_count
       /\ DOMAIN components' = DOMAIN components
       /\ \A U \in DOMAIN components : Len(components'[U]) = Len(components[U])
       /\ At(components'[last'.ty], last'.idx) = carried'[last'.idx + 1][last'.ty]
       /\ At(components'[last'.ty], last'.idx) # None
       /\ \A U \in DOMAIN components :
            \A e \in 0..(Len(components[U]) - 1) :
              (U # last'.ty \/ e # last'.idx) =>
                At(components'[U], e) = At(components[U], e)]_vars

\* An insert has just overwritten the value a slot held; another slot exists.
C20_Witness ==
  /\ last.op \in {"insert", "insert_component_into_entity_by_id"}
  /\ last.hit
  /\ last.res = "ok"
  /\ CellFull(last.ty, last.idx)
  /\ Len(map) >= 2

\* The slot a create_entity on the current store designates: the first slot
\* with a zero mask, or else the slot it appends.
Designated == IF \E e \in Slots : At(map, e) = 0
              THEN CHOOSE e \in Slots : At(map, e) = 0 /\ \A f \in 0..(e - 1) : At(map, f) # 0
              ELSE Len(map)

C22_DeletedEntityInNoQuery ==
  [][/\ (last'.op = "delete_entity_by_id" /\ last'.idx < Len(map)) =>
          /\ last'.res = "ok"
          /\ map' = SetAt(map, last'.idx, 0)
          /\ components' = components
          /\ bit_masks' = bit_masks
          /\ entity_count' = entity_count
     /\ \A i \in freed' :
          /\ QueryEntity(i) \notin Views'
          /\ \A h \in RunHandles' : h.slot # i]_vars

\* T is registered and no entity carries it: its bit is in no mask.
Unattached(T) == T \in Registered /\ \A e \in Slots : ~Contains(e, bit_masks[T])

\* The lists of one or two registered types.
OneOrTwoTypes ==
  {<<T>> : T \in Registered} \cup {<<T, U>> : T \in Registered, U \in Registered}

C30_RegistrationsWithinMaskWidth ==
  /\ Cardinality(Registered) <= width
  /\ \A T \in Registered : \E k \in 0..(width - 1) : bit_masks[T] = 2 ^ k

\* Some handle of the cell is live.
Borrowed(c) == borrows[c] # Unborrowed

\* The cells of T the store holds a value in.
FullCells(T) == {c \in Cells : c[1] = T /\ CellFull(T, c[2])}

\* The attempt refused: it panics and leaves handles and cells as they were.
Refused == last'.res = "panic" /\ borrows' = borrows /\ components' = components

\* C23: for every cell, either at most one exclusive borrow and no shared one
\* is live, or shared borrows only; an exclusive attempt on a cell with a live
\* borrow, and a shared attempt on a cell with a live exclusive borrow, fail
\* at the attempt and change nothing.
C23_BorrowExclusion ==
  /\ [](\A c \in Cells : \/ (borrows[c].exclusive <= 1 /\ borrows[c].shared = 0)
                          \/ borrows[c].exclusive = 0)
  /\ [][LET T == last'.ty
            e == last'.idx
        IN  /\ (/\ last'.op = "get_component_mut"
                /\ <<T, e>> \in FullCells(T) /\ Borrowed(<<T, e>>)) => Refused
            /\ (/\ last'.op = "get_component"
                /\ <<T, e>> \in FullCells(T) /\ borrows[<<T, e>>].exclusive > 0) => Refused
            /\ (/\ last'.op \in {"auto_mut", "query_fn_mut"}
                /\ \E c \in FullCells(T) : Borrowed(c)) => Refused
            /\ (/\ last'.op \in {"auto", "query_fn"}
                /\ \E c \in FullCells(T) : borrows[c].exclusive > 0) => Refused]_vars

\* A second auto_mut over a type is refused while a RefMut of the first is
\* live.
C23_Witness ==
  /\ last.op = "auto_mut"
  /\ last.res = "panic"
  /\ \E c \in FullCells(last.ty) : borrows[c].exclusive = 1

\* C24: exclusion is per cell: while a RefMut of one cell is live,
\* get_component and get_component_mut of any other cell that holds a value
\* (another type of the same entity, the same type of another entity) succeed,
\* the first unless a RefMut of that cell is live, the second unless any
\* handle of that cell is.
C24_ExclusionPerCell ==
  \A c \in Cells :
    borrows[c].exclusive = 1 =>
      \A T \in Registered, e \in Slots :
        (<<T, e>> # c /\ CellFull(T, e)) =>
          /\ borrows[<<T, e>>].exclusive = 0 =>
                get_component(Ents, QueryEntity(e), T) =
                  Fetched(At(components[T], e), "ok", "")
          /\ ~Borrowed(<<T, e>>) =>
                get_component_mut(Ents, QueryEntity(e), T) =
                  Fetched(At(components[T], e), "ok", "")

\* With a RefMut of type 1 of entity 0 live, get_component_mut gave a RefMut
\* of type 1 of entity 1, and get_component gives a Ref of type 2 of entity 0.
C24_Witness ==
  /\ borrows[<<1, 0>>].exclusive = 1
  /\ last.op = "get_component_mut"
  /\ last.ty = 1 /\ last.idx = 1
  /\ last.res = "ok"
  /\ get_component(Ents, QueryEntity(0), 2).res = "ok"

\* C25: once no handle of a cell of T is live, every query over T succeeds,
\* shared or exclusive, and yields for each cell the value last written to it.
C25_ReleasedThenObserved ==
  \A T \in Registered :
    (\A c \in FullCells(T) : ~Borrowed(c)) =>
      \A r \in {auto(Ents, T), auto_mut(Ents, T), query_fn(Ents, T), query_fn_mut(Ents, T)} :
        /\ r.res = "ok"
        /\ \A k \in 1..Len(r.s) : r.s[k].val = carried[r.s[k].slot + 1][T]
        /\ \A c \in FullCells(T) : \E k \in 1..Len(r.s) : r.s[k].slot = c[2]

\* The last RefMut of a type was dropped after a new value was written
\* through it.
C25_Witness ==
  /\ last.op = "drop_mut"
  /\ \A c \in FullCells(last.ty) : ~Borrowed(c)
  /\ At(components[last.ty], last.idx) # Some(1)
  /\ auto(Ents, last.ty).res = "ok"

\* C27: add of a type that has a value replaces it without error: the store
\* holds the added value for the type (one entry per type), a following get_ref
\* returns it, and the entries of the other types are as they were.
C27_AddReplaces ==
  [][last'.op = "add" =>
       LET T == last'.ty
       IN  /\ last'.res = "ok"
           /\ DOMAIN values' = DOMAIN values \cup {T}
           /\ get_ref(values', T) = Fetched(Some(last'.idx), "ok", "")
           /\ \A U \in DOMAIN values \ {T} : values'[U] = values[U]]_vars

\* A type that had a value was added again while another type has a value.
C27_Witness ==
  /\ last.op = "add"
  /\ last.hit
  /\ DOMAIN values # {last.ty}

\* A resource call on T answered Err(NonexistentResourceError).
NotFound(r) == r.res = "err" /\ r.err = "NonexistentResourceError"

\* C28: get_ref, get_mut and delete answer not-found for a type without a
\* value (never added, or deleted); a delete of a type with a value returns
\* that value and leaves the type without one; only an add gives a type a
\* value (again).
C28_NotFoundUntilAdded ==
  /\ [](\A T \in TypeIds \ DOMAIN values :
          /\ NotFound(get_ref(values, T))
          /\ NotFound(get_mut(values, T))
          /\ NotFound(delete(values, T)))
  /\ [][LET T == last'.ty
        IN  /\ (last'.op = "delete" /\ T \in DOMAIN values) =>
                  /\ last'.res = "ok"
                  /\ last'.idx = values[T].value
                  /\ T \notin DOMAIN values'
            /\ (last'.op \in {"get_ref", "get_mut", "delete"} /\ T \notin DOMAIN values) =>
                  /\ last'.res = "err"
                  /\ values' = values
            /\ \A U \in DOMAIN values' \ DOMAIN values :
                  last'.op = "add" /\ last'.ty = U]_vars

\* A delete has just returned the value of a type, another type keeps its
\* value, and get_ref, get_mut and delete of the deleted type answer not-found.
C28_Witness ==
  /\ last.op = "delete"
  /\ last.res = "ok"
  /\ last.idx \in Data
  /\ DOMAIN values # {}
  /\ NotFound(get_ref(values, last.ty))
  /\ NotFound(get_mut(values, last.ty))
  /\ NotFound(delete(values, last.ty))

\* C29: a fetch through get_ref or Res of a resource whose RefMut handles are
\* released answers Ok with the value last assigned through a RefMut, by
\* get_mut or by a system's ResMut, in whichever call it is made.
C29_WrittenThenObserved ==
  /\ [](\A T \in DOMAIN values :
          (values[T].exclusive = 0 /\ written[T] # None) =>
            /\ get_ref(values, T) = Fetched(written[T], "ok", "")
            /\ ResGet(values, T) = Fetched(written[T], "ok", ""))
  /\ [][(/\ last'.op \in {"get_ref", "run_system_res"}
         /\ last'.ty \in DOMAIN values
         /\ values[last'.ty].exclusive = 0
         /\ written[last'.ty] # None) =>
           /\ last'.res = "ok"
           /\ Some(last'.idx) = written[last'.ty]]_vars

\* A system's Res saw the value that was written through a RefMut after the
\* resource was added.
C29_Witness ==
  /\ last.op = "run_system_res"
  /\ last.res = "ok"
  /\ written[last.ty] = Some(last.idx)

\* The mask of an entity that carries exactly the types the callers gave slot
\* e, the k-th type of order having bit 2^(k-1).
RECURSIVE MaskOfCarried(_, _, _)
MaskOfCarried(order, e, k) ==
  IF k > Len(order) THEN 0
  ELSE (IF carried[e + 1][order[k]] # None THEN 2 ^ (k - 1) ELSE 0)
       + MaskOfCarried(order, e, k + 1)

\* C31: while no type has been deregistered or registered again, the k-th type
\* registered (counting from 0, by register_component or by an insert) has
\* bitmask 2^k, and the mask of every entity is the sum of the bitmasks of the
\* types it was given (first and second: 3, the second only: 2).
C31_BitsInRegistrationOrder ==
  registrations # None =>
    LET order == registrations[1]
    IN  /\ DOMAIN bit_masks = Range(order)
        /\ \A k \in 1..Len(order) : bit_masks[order[k]] = 2 ^ (k - 1)
        /\ \A e \in Slots : At(map, e) = MaskOfCarried(order, e, 1)

\* Two types were registered by inserts; one entity has both (mask 3) and
\* another the second only (mask 2).
C31_Witness ==
  /\ registrations # None
  /\ Len(registrations[1]) = 2
  /\ map = <<3, 2>>
  /\ last.op = "insert"

\* A sequence of numbers in strictly ascending order.
Ascending(v) == \A i \in 1..(Len(v) - 1) : v[i] < v[i + 1]

\* C32: read_indexes_to_buf, run_entity and run enumerate the matching
\* entities in strictly ascending slot index, and run returns one column for
\* each type of the query, in the order the types were added to it, whatever
\* the order of their registration.
C32_AscendingSlotsQueryOrder ==
  \A tys \in OneOrTwoTypes :
    LET q == QueryOf(tys)
        cols == run(Ents, q)
    IN  /\ Ascending(read_indexes_to_buf(Ents, q))
        /\ Ascending([k \in DOMAIN run_entity(Ents, q).s |-> run_entity(Ents, q).s[k].id])
        /\ cols.res = "ok" =>
              /\ Len(cols.s) = Len(tys)
              /\ \A j \in DOMAIN tys :
                   LET col == cols.s[j]
                   IN  /\ \A i \in DOMAIN col : col[i].ty = tys[j]
                       /\ Ascending([i \in DOMAIN col |-> col[i].slot])

\* A query names the type registered later first and gets its column first,
\* and a query matches two entities.
C32_Witness ==
  \E T \in Registered, U \in Registered :
    /\ bit_masks[U] > bit_masks[T]
    /\ run(Ents, QueryOf(<<U, T>>)).res = "ok"
    /\ run(Ents, QueryOf(<<U, T>>)).s[1] # << >>
    /\ run(Ents, QueryOf(<<U, T>>)).s[1][1].ty = U
    /\ run(Ents, QueryOf(<<T>>)).res = "ok"
    /\ Len(run(Ents, QueryOf(<<T>>)).s[1]) = 2
    /\ Len(run_entity(Ents, QueryOf(<<T>>)).s) = 2

\* C33: get_component::<T>() and get_component_mut::<T>() on entity e return
\* an error whenever T's bit is clear in the mask of e (also after
\* delete_component_by_entity_id::<T>(e)), and the stored value when it is set.
C33_GetComponentFollowsMask ==
  \A T \in Registered, e \in Slots :
    LET shared == get_component(Ents, QueryEntity(e), T)
        exclusive == get_component_mut(Ents, QueryEntity(e), T)
    IN  IF HasBit(Ents, T, e)
        THEN /\ shared = Fetched(carried[e + 1][T], "ok", "")
             /\ exclusive = Fetched(carried[e + 1][T], "ok", "")
        ELSE shared.res = "err" /\ exclusive.res = "err"

\* C34: for a registered T, AutoQuery::len() is the number of items the
\* iterator of auto::<T>() yields and the length of the one column the general
\* query for T returns.
C34_AutoLenCountsItems ==
  \A T \in Registered :
    /\ AutoQueryLen(Ents, T).res = "ok"
    /\ auto(Ents, T).res = "ok"
    /\ AutoQueryLen(Ents, T).s = Len(auto(Ents, T).s)
    /\ RunOne(T).res = "ok"
    /\ Len(RunOne(T).s) = 1
    /\ AutoQueryLen(Ents, T).s = Len(RunOne(T).s[1])

\* C35: a call addressed with the index of a slot that was deleted and handed
\* out again (insert_component_into_entity_by_id, delete_component_by_entity_id,
\* delete_entity_by_id) returns Ok and acts on the slot as it is now: the insert
\* gives the new occupant the value and the bit, the deletes take the bit, or
\* every bit, from its mask.
C35_StaleIndexActsOnNewOccupant ==
  [][LET T == last'.ty
         i == last'.idx
     IN  /\ (last'.op = "insert_component_into_entity_by_id" /\ i \in reused) =>
               /\ last'.res = "ok"
               /\ At(map', i) = BitOr(At(map, i), bit_masks'[T])
               /\ get_component(Ents', QueryEntity(i), T).val = carried'[i + 1][T]
               /\ carried'[i + 1][T] # None
         /\ (last'.op = "delete_component_by_entity_id" /\ i \in reused /\ T \in Registered) =>
               /\ last'.res = "ok"
               /\ map' = SetAt(map, i, ClearBit(At(map, i), bit_masks[T]))
         /\ (last'.op = "delete_entity_by_id" /\ i \in reused) =>
               /\ last'.res = "ok"
               /\ map' = SetAt(map, i, 0)]_vars

\* The call just made is delete_component_by_entity_id_checked of the first
\* registered type on an entity whose mask was m, the first two registered
\* types being the only ones.
FirstTypeDeletedAt(m) ==
  /\ last'.op = "delete_component_by_entity_id"
  /\ last'.res = "ok"
  /\ registrations # None
  /\ Len(registrations[1]) = 2
  /\ last'.ty = registrations[1][1]
  /\ last'.idx \in Slots
  /\ At(map, last'.idx) = m

C37_CreateDesignatesFreshSlot ==
  [][(last.op = "create_entity" /\ last'.op = "create_entity") =>
       insert_cursor' # insert_cursor]_vars

\* C38: an insert that returns an error (insert_checked, or
\* insert_component_into_entity_by_id_checked with an index out of range)
\* leaves the store as it was: no type registered, no column created, no mask
\* changed.
C38_FailedInsertChangesNothing ==
  [][(/\ last'.op \in {"insert", "insert_component_into_entity_by_id"}
      /\ last'.res = "err") =>
       /\ bit_masks' = bit_masks
       /\ components' = components
       /\ map' = map
       /\ entity_count' = entity_count]_vars

\* The slots of the handles of a sequence.
SlotsOf(hs) == {hs[k].slot : k \in DOMAIN hs}

\* C39: for every registered T, auto_mut::<T>() yields values of exactly the
\* entities auto::<T>() yields values of: those whose mask has T's bit, never
\* a cell of a deleted entity or of an entity T was removed from.
C39_AutoMutYieldsWhatAutoYields ==
  \A T \in Registered :
    LET shared == auto(Ents, T)
        exclusive == auto_mut(Ents, T)
    IN  /\ shared.res = "ok"
        /\ exclusive.res = "ok"
        /\ SlotsOf(exclusive.s) = SlotsOf(shared.s)
        /\ \A e \in SlotsOf(exclusive.s) : HasBit(Ents, T, e)

\* C40: the mask list has entity_count entries, entity_count never decreases,
\* and with an entity in the store the insert cursor is the index of a slot.
C40_CountAndCursor ==
  /\ [](/\ Len(map) = entity_count
        /\ entity_count > 0 => insert_cursor < entity_count)
  /\ [][entity_count' >= entity_count]_vars

\* With two slots in the store and the cursor on the second, the first was
\* deleted with delete_entity_by_id: count and mask list keep their length.
C40_Witness ==
  /\ last.op = "delete_entity_by_id"
  /\ last.res = "ok"
  /\ entity_count = 2
  /\ insert_cursor = 1
  /\ At(map, 0) = 0

====
